---- MODULE Spec2Model ----
(***************************************************************************)
(* The frame loop of the WebGPU volume raycaster, in its two variants:     *)
(*   "async"    src/unnamed/part_000: an async while(true) loop that       *)
(*              awaits a display tick, an optional colormap reload and the *)
(*              mapping of one persistent staging buffer;                  *)
(*   "callback" src/src/volume-raycaster.js: a requestAnimationFrame       *)
(*              callback that renders synchronously with a staging buffer  *)
(*              created mapped in every frame.                             *)
(* JavaScript runs each stretch of code between two awaits to completion,  *)
(* so every action below is one such stretch (or one event handler).       *)
(***************************************************************************)
EXTENDS Integers, Sequences, FiniteSets, TLC

\* ------------------------------------------------------------------ bounds
\* Largest number of camera operations (rotations, pans, zooms) in a run.
MaxMoves == 2
\* Largest number of colormap textures ever created (the startup one included).
MaxTextures == 3

\* ------------------------------------------------------- program constants
\* The view-parameter record: 16 floats of projView, then the eye position.
RecordFloats == 20
RecordBytes == RecordFloats * 4
MatrixFloats == 16

Variants == {"async", "callback"}

\* Names offered by the colormap picker; the async variant starts with
\* "dBZ Radarscope", the callback variant loads "Cool Warm" once.
Colormaps == {"dBZ Radarscope", "Cool Warm"}

VARIABLES
    variant,          \* which of the two programs runs
    pc,               \* the await the async loop is suspended at; "stopped" after a throw
    rafQueue,         \* callbacks handed to requestAnimationFrame, oldest first
    hidden,           \* document.hidden
    camera,           \* the ArcballCamera's state
    projView,         \* the mat4 projView (written in place by mat4.mul)
    upload,           \* the staging buffer: mapping state and contents
    viewParams,       \* contents of viewParamsBuffer (the uniform buffer)
    picker,           \* colormapPicker.value
    colormapName,     \* the variable colormapName
    loading,          \* the colormap an unresolved uploadImage was called for
    colormapTexture,  \* the variable colormapTexture
    bindGroupEntries, \* the array bindGroupEntries
    bindGroup,        \* the bind group given to setBindGroup (bindGroup / viewParamBG)
    nextId,           \* next fresh GPU object id
    frameLog,         \* the calls the current frame has made so far, in order
    submitted,        \* what the last device.queue.submit received and did
    last,             \* what the step just taken was
    boot              \* startup: the await it is suspended at and what it has done

vars == <<variant, pc, rafQueue, hidden, camera, projView, upload, viewParams,
          picker, colormapName, loading, colormapTexture, bindGroupEntries,
          bindGroup, nextId, frameLog, submitted, last, boot>>

\* ------------------------------------------------------------------ camera
\* The arcball camera is an external library: its state is a pose, and the
\* view matrix (camera.camera) and the eye position (camera.eyePos()) are
\* both functions of the pose.  A float is modelled by the quantity it belongs
\* to and the pose it was computed from.
Poses == {c \in [rot : 0..MaxMoves, pan : 0..MaxMoves, zoom : 0..MaxMoves] :
              c.rot + c.pan + c.zoom <= MaxMoves}
\* "computed from no pose": the identity matrix of mat4.create(), or zeroes.
NoPose == [rot |-> -1, pan |-> -1, zoom |-> -1]
DefaultPose == [rot |-> 0, pan |-> 0, zoom |-> 0]
Float(q, c) == [q |-> q, of |-> c]
ZeroFloat == Float("zero", NoPose)

CameraRotate(c) == [c EXCEPT !.rot = @ + 1]
CameraPan(c) == [c EXCEPT !.pan = @ + 1]
CameraZoom(c) == [c EXCEPT !.zoom = @ + 1]
\* camera.camera, the view matrix of the pose
CameraMatrix(c) == [i \in 1..MatrixFloats |-> Float("view", c)]
\* camera.eyePos(), a vec3
EyePos(c) == [i \in 1..3 |-> Float("eye", c)]
\* mat4.mul(out, proj, view): every float of the product is computed from the
\* view matrix it is given (proj never changes)
MatMulProj(view) == [i \in 1..MatrixFloats |-> Float("projView", view[i].of)]
\* mat4.create()
IdentityMatrix == [i \in 1..MatrixFloats |-> Float("identity", NoPose)]

\* ------------------------------------------------------------ GPU buffers
\* Float32Array.prototype.set(arr, offset) on a mapped range
TypedArraySet(map, arr, offset) ==
    [i \in 1..Len(map) |->
        IF i > offset /\ i <= offset + Len(arr) THEN arr[i - offset] ELSE map[i]]

ZeroRecord == [i \in 1..RecordFloats |-> ZeroFloat]
\* No staging buffer exists yet (callback variant before its first frame).
NoBuffer == [state |-> "none", data |-> ZeroRecord, fault |-> FALSE]
\* device.createBuffer({size: 20 * 4, ..., mappedAtCreation})
CreateBuffer(mappedAtCreation) ==
    [state |-> IF mappedAtCreation THEN "mapped" ELSE "unmapped",
     data |-> ZeroRecord, fault |-> FALSE]
\* buffer.mapAsync(): valid only on an unmapped buffer with no mapping pending
MapAsync(b) ==
    IF b.state = "unmapped" THEN [b EXCEPT !.state = "pending"]
    ELSE [b EXCEPT !.fault = TRUE]
\* the mapping promise resolves
MapResolved(b) == [b EXCEPT !.state = "mapped"]
\* new Float32Array(buffer.getMappedRange()).set(arr, offset): getMappedRange
\* throws unless the buffer is mapped
WriteMapped(b, arr, offset) ==
    IF b.state = "mapped" THEN [b EXCEPT !.data = TypedArraySet(@, arr, offset)]
    ELSE [b EXCEPT !.fault = TRUE]
\* buffer.unmap()
Unmap(b) == [b EXCEPT !.state = "unmapped"]

\* ------------------------------------------------------------ GPU objects
viewParamsBuffer == [id |-> 1, name |-> "viewParamsBuffer"]
sampler == [id |-> 2, name |-> "sampler"]
volumeTexture == [id |-> 3, name |-> "volume", dim |-> "3d"]
volumeDataBuffer == [id |-> 4, name |-> "volumeData"]
renderPipeline == [id |-> 5, name |-> "renderPipeline"]
vertexBuffer == [id |-> 6, name |-> "vertexBuffer"]
indexBuffer == [id |-> 7, name |-> "indexBuffer"]
\* ids from here on are handed out at run time (nextId)
FirstFreeId == indexBuffer.id + 1

\* a colormap texture: the object and the colormap it was loaded from
Texture(id, name) == [id |-> id, name |-> name, dim |-> "2d"]
\* texture.createView()
CreateView(tex) == [type |-> tex.dim, of |-> tex]
BufferBinding(type, buf) == [type |-> type, of |-> buf]

\* device.createBindGroupLayout: the type each binding slot expects
bindGroupLayout(v) ==
    IF v = "async"
    THEN [b \in 0..4 |-> CASE b = 0 -> "uniform" [] b = 1 -> "3d" [] b = 2 -> "2d"
                           [] b = 3 -> "filtering" [] b = 4 -> "read-only-storage"]
    ELSE [b \in 0..3 |-> CASE b = 0 -> "uniform" [] b = 1 -> "3d" [] b = 2 -> "2d"
                           [] b = 3 -> "filtering"]

\* the entries of the bind group as first built
InitialEntries(v, tex) ==
    [b \in DOMAIN bindGroupLayout(v) |->
        [binding |-> b,
         resource |-> CASE b = 0 -> BufferBinding("uniform", viewParamsBuffer)
                        [] b = 1 -> CreateView(volumeTexture)
                        [] b = 2 -> CreateView(tex)
                        [] b = 3 -> BufferBinding("filtering", sampler)
                        [] b = 4 -> BufferBinding("read-only-storage", volumeDataBuffer)]]

\* device.createBindGroup({layout, entries}): an immutable object holding the
\* resources the entries name at the time of the call; it is valid when there
\* is exactly one entry of the expected type for every slot of the layout
CreateBindGroup(id, layout, entries) ==
    [id |-> id,
     resources |-> [i \in DOMAIN entries |-> entries[i].resource],
     bindings |-> [i \in DOMAIN entries |-> entries[i].binding],
     valid |-> /\ \A b \in DOMAIN layout :
                     Cardinality({i \in DOMAIN entries : entries[i].binding = b}) = 1
               /\ \A i \in DOMAIN entries :
                     /\ entries[i].binding \in DOMAIN layout
                     /\ entries[i].resource.type = layout[entries[i].binding]]
\* the resource a bind group holds for a binding slot
BoundAt(bg, b) == bg.resources[CHOOSE i \in DOMAIN bg.bindings : bg.bindings[i] = b]

\* -------------------------------------------------------- one frame's work
\* "Update camera buffer": projView = mat4.mul(projView, proj, camera.camera)
UpdateProjView(cam) == MatMulProj(CameraMatrix(cam))

\* The block that fills the mapped staging buffer and unmaps it:
\*   var eyePos = camera.eyePos(); map.set(projView);
\*   map.set(eyePos, projView.length); upload.unmap();
\* (a faulty variant: the buffer is filled but never unmapped)
StageRecord_NoUnmap(u, pv, cam) ==
    WriteMapped(WriteMapped(u, pv, 0), EyePos(cam), Len(pv))
StageRecord(u, pv, cam) ==
    Unmap(WriteMapped(WriteMapped(u, pv, 0), EyePos(cam), Len(pv)))
StageCalls == <<"eyePos", "getMappedRange", "set", "set", "unmap">>

\* clearValue / loadValue [0.3, 0.3, 0.3, 1], in tenths
ClearColor == <<3, 3, 3, 10>>
Cmd(op, args) == [op |-> op, args |-> args]
\* (a faulty variant: the copy is recorded after the render pass)
RecordCommands_CopyAfterPass(v, bg) ==
    << Cmd("beginRenderPass", <<"getCurrentTexture().createView()", ClearColor>>),
       Cmd("setPipeline", <<renderPipeline.id>>),
       Cmd("setBindGroup", <<0, bg.id>>),
       Cmd("setVertexBuffer", <<0, vertexBuffer.id>>),
       Cmd("setIndexBuffer", <<indexBuffer.id, "uint16">>),
       Cmd("draw", <<"cube.vertices.length / 3", 1, 0, 0>>),
       Cmd(IF v = "async" THEN "end" ELSE "endPass", <<>>),
       Cmd("copyBufferToBuffer", <<"upload", 0, viewParamsBuffer.id, 0, RecordBytes>>) >>
\* The commands one frame records into its command encoder, in call order.
RecordCommands(v, bg) ==
    << Cmd("copyBufferToBuffer", <<"upload", 0, viewParamsBuffer.id, 0, RecordBytes>>),
       Cmd("beginRenderPass", <<"getCurrentTexture().createView()", ClearColor>>),
       Cmd("setPipeline", <<renderPipeline.id>>),
       Cmd("setBindGroup", <<0, bg.id>>),
       Cmd("setVertexBuffer", <<0, vertexBuffer.id>>),
       Cmd("setIndexBuffer", <<indexBuffer.id, "uint16">>),
       Cmd("draw", <<"cube.vertices.length / 3", 1, 0, 0>>),
       Cmd(IF v = "async" THEN "end" ELSE "endPass", <<>>) >>
OpsOf(cmds) == [i \in 1..Len(cmds) |-> cmds[i].op]

\* The GPU runs a submitted command buffer in order: the copy moves the staging
\* buffer's bytes into the uniform buffer, the draw reads the uniform buffer.
RECURSIVE Execute(_, _, _)
Execute(cmds, staging, g) ==
    IF cmds = <<>> THEN g
    ELSE LET c == Head(cmds)
             g1 == CASE c.op = "copyBufferToBuffer" ->
                          [g EXCEPT !.uniform =
                              TypedArraySet(@, SubSeq(staging.data, 1, c.args[5] \div 4), 0)]
                      [] c.op = "draw" -> [g EXCEPT !.drawSaw = g.uniform, !.draws = @ + 1]
                      [] OTHER -> g
         IN Execute(Tail(cmds), staging, g1)

\* device.queue.submit([commandEncoder.finish()]): a command buffer that uses
\* a buffer which is still mapped is rejected and nothing in it runs.
Submit(cmds, staging, uniform, docHidden) ==
    LET g0 == [uniform |-> uniform, drawSaw |-> ZeroRecord, draws |-> 0]
        g == IF staging.state = "unmapped" THEN Execute(cmds, staging, g0) ELSE g0
    IN [cmds |-> cmds, docHidden |-> docHidden, staging |-> staging.state,
        uniform |-> g.uniform, drawSaw |-> g.drawSaw, draws |-> g.draws]
NoSubmission ==
    [cmds |-> <<>>, docHidden |-> FALSE, staging |-> "none",
     uniform |-> ZeroRecord, drawSaw |-> ZeroRecord, draws |-> 0]

\* ---------------------------------------------------------------- startup
\* Longest list of messages a shader compilation reports.
MaxMessages == 2
\* "bytes per row must be multiple of 256"
RowAlignment == 256

\* compilationInfo.messages: the i-th message, of type t
MessageTypes == {"error", "warning", "info"}
Message(t, i) == [type |-> t, lineNum |-> 10 + i, linePos |-> i, message |-> t]
MessageLists ==
    UNION {{[i \in 1..n |-> Message(f[i], i)] : f \in [1..n -> MessageTypes]} :
           n \in 0..MaxMessages}

\* for each message: hadError = hadError || msg.type == "error"
RECURSIVE HadErrorFrom(_, _, _)
HadErrorFrom(messages, i, hadError) ==
    IF i > Len(messages) THEN hadError
    ELSE HadErrorFrom(messages, i + 1, hadError \/ messages[i].type = "error")
HadError(messages) == HadErrorFrom(messages, 1, FALSE)
\* console.log(`${msg.lineNum}:${msg.linePos} - ${msg.message}`)
LogLine(msg) == <<msg.lineNum, ":", msg.linePos, " - ", msg.message>>
\* what the compilation check writes to the console
ShaderLog(messages) ==
    IF Len(messages) > 0
    THEN <<"Shader compilation log:">> \o [i \in 1..Len(messages) |-> LogLine(messages[i])]
         \o (IF HadError(messages) THEN <<"Shader failed to compile">> ELSE <<>>)
    ELSE <<>>

\* The keys of the table `volumes`.
VolumeNames == {"Bonsai", "Foot", "Hydrogen Atom"}
\* The property names the object `volumes` inherits from Object.prototype.
ObjectPrototypeNames ==
    {"constructor", "hasOwnProperty", "isPrototypeOf", "propertyIsEnumerable",
     "toLocaleString", "toString", "valueOf", "__proto__",
     "__defineGetter__", "__defineSetter__", "__lookupGetter__", "__lookupSetter__"}
\* name in volumes: true of the table's own keys and of every inherited name
InVolumes(name) == name \in VolumeNames \/ name \in ObjectPrototypeNames
\* window.location.hash as a sequence of pieces: "#", then runs of plain
\* text, with every "%" and each of the two characters after it a piece of
\* its own.  The fragments tried: none; three that name a volume (plain, with
\* an escaped space, with an escaped letter); one that names none; one that
\* names a property every object inherits; one with an escaped two-byte
\* character; two that are malformed.
Hashes ==
    {<<>>,
     <<"#", "Bonsai">>,
     <<"#", "Hydrogen", "%", "2", "0", "Atom">>,
     <<"#", "%", "4", "6", "oot">>,
     <<"#", "Nope">>,
     <<"#", "toString">>,
     <<"#", "N", "%", "C", "3", "%", "A", "9">>,
     <<"#", "%">>,
     <<"#", "%", "E", "0", "%", "A", "4", "%", "A">>}

\* decodeURI (ECMAScript Decode with the reserved set of decodeURI)
HexChars == <<"0", "1", "2", "3", "4", "5", "6", "7", "8", "9",
              "A", "B", "C", "D", "E", "F">>
HexCharsLower == <<"0", "1", "2", "3", "4", "5", "6", "7", "8", "9",
                   "a", "b", "c", "d", "e", "f">>
IsHex(c) == \E i \in 1..Len(HexChars) : HexChars[i] = c \/ HexCharsLower[i] = c
HexValue(c) == (CHOOSE i \in 1..Len(HexChars) : HexChars[i] = c \/ HexCharsLower[i] = c) - 1
\* the printable ASCII characters, from the space (code 32) on; the quote,
\* the backslash and the grave accent are named by their codes
Ascii == <<" ", "!", "<34>", "#", "$", "%", "&", "'", "(", ")", "*", "+", ",", "-", ".", "/",
           "0", "1", "2", "3", "4", "5", "6", "7", "8", "9", ":", ";", "<", "=", ">", "?",
           "@", "A", "B", "C", "D", "E", "F", "G", "H", "I", "J", "K", "L", "M", "N", "O",
           "P", "Q", "R", "S", "T", "U", "V", "W", "X", "Y", "Z", "[", "<92>", "]", "^", "_",
           "<96>", "a", "b", "c", "d", "e", "f", "g", "h", "i", "j", "k", "l", "m", "n", "o",
           "p", "q", "r", "s", "t", "u", "v", "w", "x", "y", "z", "{", "|", "}", "~">>
\* the character of a code below 128 (a control character is named by its code)
Chr(b) == IF b >= 32 /\ b < 32 + Len(Ascii) THEN Ascii[b - 31]
          ELSE "<" \o ToString(b) \o ">"
\* a character above 127, named by its code point
CodePointChar(cp) == "<U+" \o ToString(cp) \o ">"
\* escapes of these characters are left as they are
ReservedSet == {";", "/", "?", ":", "@", "&", "=", "+", "$", ",", "#"}
\* the byte written "%XY" at pieces k, k+1, k+2; -1 when there is none
EscapedByte(pieces, k) ==
    IF k + 2 <= Len(pieces) /\ pieces[k] = "%" /\ IsHex(pieces[k + 1]) /\ IsHex(pieces[k + 2])
    THEN 16 * HexValue(pieces[k + 1]) + HexValue(pieces[k + 2])
    ELSE -1
\* the number of bytes a UTF-8 sequence with this first byte has (0: none)
Utf8Length(b) ==
    IF b < 128 THEN 1
    ELSE IF b < 192 THEN 0
    ELSE IF b < 224 THEN 2
    ELSE IF b < 240 THEN 3
    ELSE IF b < 248 THEN 4
    ELSE 0
LeadBits(b, n) == b - (IF n = 2 THEN 192 ELSE IF n = 3 THEN 224 ELSE 240)
\* the code point after n more escaped continuation bytes from piece k on;
\* -1 when one of them is missing or is no continuation byte
RECURSIVE Continuation(_, _, _, _)
Continuation(pieces, k, n, cp) ==
    IF n = 0 THEN cp
    ELSE LET b == EscapedByte(pieces, k)
         IN IF b < 128 \/ b >= 192 THEN -1
            ELSE Continuation(pieces, k + 3, n - 1, cp * 64 + (b - 128))
ValidCodePoint(cp, n) ==
    IF n = 2 THEN cp >= 128
    ELSE IF n = 3 THEN cp >= 2048 /\ ~(cp >= 55296 /\ cp <= 57343)
    ELSE cp >= 65536 /\ cp <= 1114111
URIError == [threw |-> TRUE, value |-> ""]
RECURSIVE DecodeFrom(_, _, _)
DecodeFrom(pieces, k, out) ==
    IF k > Len(pieces) THEN [threw |-> FALSE, value |-> out]
    ELSE IF pieces[k] # "%" THEN DecodeFrom(pieces, k + 1, out \o pieces[k])
    ELSE LET b == EscapedByte(pieces, k)
             n == Utf8Length(b)
         IN IF b < 0 \/ n = 0 THEN URIError
            ELSE IF n = 1
            THEN DecodeFrom(pieces, k + 3,
                            out \o (IF Chr(b) \in ReservedSet
                                    THEN pieces[k] \o pieces[k + 1] \o pieces[k + 2]
                                    ELSE Chr(b)))
            ELSE LET cp == Continuation(pieces, k + 3, n - 1, LeadBits(b, n))
                 IN IF cp < 0 \/ ~ValidCodePoint(cp, n) THEN URIError
                    ELSE DecodeFrom(pieces, k + 3 * n, out \o CodePointChar(cp))
\* decodeURI(s): the decoded string, or a URIError thrown
DecodeURI(pieces) == DecodeFrom(pieces, 1, "")
\* decodeURI(window.location.hash.substring(1))
LinkedDataset(hash) == DecodeURI(Tail(hash))

\* The dimensions getVolumeDimensions may return, and the size of the file
\* fetchVolume returns for them (one byte per voxel).
VolumeDims == {<<w, h, d>> : w \in {64, 256, 300}, h \in 1..2, d \in 1..2}
VolumeDataLength(dims) == dims[1] * dims[2] * dims[3]
NoVolume == [textureSize |-> <<>>, bufferSize |-> 0, bytesPerRow |-> 0,
             rowsPerImage |-> 0, copySize |-> <<>>]
\* The volume texture, the upload buffer and the source layout of
\* copyBufferToTexture(src, dst, volumeDims)
VolumeUpload(dims) ==
    [textureSize |-> dims,
     bufferSize |-> VolumeDataLength(dims),
     bytesPerRow |-> dims[1],
     rowsPerImage |-> dims[2],
     copySize |-> dims]

\* The startup record: the await the startup function is suspended at (or
\* how it ended), what the host offers and what startup has done so far.
StartBoot(gpu, hash) ==
    [phase |-> "start", gpu |-> gpu, hash |-> hash, adapter |-> "none",
     deviceRequested |-> FALSE, canvasHidden |-> FALSE, notice |-> FALSE,
     messages |-> <<>>, console |-> <<>>, alerts |-> <<>>, created |-> <<>>,
     pickersFilled |-> FALSE, volumePicker |-> "", volumeName |-> "",
     volume |-> NoVolume]
\* the record while only the frame loop is looked at
LoopBoot == [StartBoot(TRUE, <<>>) EXCEPT !.phase = "running"]

\* the canvas is hidden and the element "no-webgpu" is shown; startup returns
ShowNoWebGPU(b) ==
    [b EXCEPT !.canvasHidden = TRUE, !.notice = TRUE, !.phase = "unsupported"]
\* After "await navigator.gpu.requestAdapter()": the async variant tests the
\* adapter; the callback variant calls adapter.requestDevice() at once, which
\* throws when the adapter is null.
AfterRequestAdapter(v, b) ==
    IF b.adapter = "null"
    THEN IF v = "async" THEN ShowNoWebGPU(b) ELSE [b EXCEPT !.phase = "crashed"]
    ELSE [b EXCEPT !.phase = "requestDevice", !.deviceRequested = TRUE]
\* After "await shaderModule.compilationInfo()": the messages are logged, and
\* startup returns when one of them is an error.
AfterCompilationInfo(b, messages) ==
    LET b1 == [b EXCEPT !.messages = messages, !.console = @ \o ShaderLog(messages)]
    IN IF HadError(messages) THEN [b1 EXCEPT !.phase = "shaderError"]
       ELSE [b1 EXCEPT !.phase = "setup"]
\* The cube's buffers, the uniform buffer and the sampler.
CreateGeometry(b) ==
    [b EXCEPT !.created = @ \o <<"createBuffer", "createBuffer", "createBuffer",
                                 "createSampler">>]
\* async: the pickers are filled and the URL fragment is looked up in
\* `volumes`; a fragment decodeURI rejects ends startup by the URIError.
ReadHash(b) ==
    LET b1 == [b EXCEPT !.pickersFilled = TRUE, !.volumeName = "Bonsai"]
        linkedDataset == LinkedDataset(b1.hash)
    IN IF b1.hash # <<>>
       THEN IF linkedDataset.threw
            THEN [b1 EXCEPT !.phase = "crashed"]
            ELSE IF InVolumes(linkedDataset.value)
            THEN [b1 EXCEPT !.volumePicker = linkedDataset.value,
                            !.volumeName = linkedDataset.value,
                            !.phase = "uploadImage"]
            ELSE [b1 EXCEPT !.alerts = Append(@, linkedDataset.value),
                            !.phase = "badLink"]
       ELSE [b1 EXCEPT !.phase = "uploadImage"]

\* ------------------------------------------------------------------- Init
NoLoad == "none"
StartColormap(v) == IF v = "async" THEN "dBZ Radarscope" ELSE "Cool Warm"

\* The state when startup has finished: the async loop is suspended in its
\* first "await animationFrame()", after requestAnimationFrame(animationFrame)
\* was called once; the callback variant has called requestAnimationFrame(frame).
LoopInit ==
    /\ variant \in Variants
    /\ pc = "tick"
    /\ rafQueue = IF variant = "async" THEN <<"animationFrame", "resolve">> ELSE <<"frame">>
    /\ hidden \in BOOLEAN
    /\ camera = DefaultPose
    /\ projView = IdentityMatrix
    /\ upload = IF variant = "async" THEN CreateBuffer(FALSE) ELSE NoBuffer
    /\ viewParams = ZeroRecord
    /\ colormapName = StartColormap(variant)
    /\ picker \in (IF variant = "async" THEN Colormaps ELSE {StartColormap(variant)})
    /\ loading = NoLoad
    /\ colormapTexture = Texture(FirstFreeId, StartColormap(variant))
    /\ bindGroupEntries = InitialEntries(variant, colormapTexture)
    /\ bindGroup = CreateBindGroup(FirstFreeId + 1, bindGroupLayout(variant), bindGroupEntries)
    /\ nextId = FirstFreeId + 2
    /\ frameLog = <<>>
    /\ submitted = NoSubmission
    /\ last = "start"
Init == LoopInit /\ boot = LoopBoot

\* ------------------------------------------------------------ environment
\* controller.mousemove(prev, cur, evt)
ControllerMousemove(cam, buttons) ==
    IF buttons = 1 THEN CameraRotate(cam)
    ELSE IF buttons = 2 THEN CameraPan(cam)
    ELSE cam
\* controller.wheel(amt), also installed as controller.pinch
ControllerWheel(cam) == CameraZoom(cam)
\* controller.twoFingerDrag(drag)
ControllerTwoFingerDrag(cam) == CameraPan(cam)

\* A handler of the controller runs; none of them reads document.hidden.
InputEvent(cam) ==
    /\ cam \in Poses
    /\ camera' = cam
    /\ last' = "event"
    /\ UNCHANGED <<boot, variant, pc, rafQueue, hidden, projView, upload, viewParams, picker,
                   colormapName, loading, colormapTexture, bindGroupEntries, bindGroup,
                   nextId, frameLog, submitted>>

Mousemove == \E buttons \in 0..2 : InputEvent(ControllerMousemove(camera, buttons))
Wheel == InputEvent(ControllerWheel(camera))
Pinch == InputEvent(ControllerWheel(camera))
TwoFingerDrag == InputEvent(ControllerTwoFingerDrag(camera))

\* The host shows or hides the page: document.hidden flips.
VisibilityChange ==
    /\ hidden' = ~hidden
    /\ last' = "event"
    /\ UNCHANGED <<boot, variant, pc, rafQueue, camera, projView, upload, viewParams, picker,
                   colormapName, loading, colormapTexture, bindGroupEntries, bindGroup,
                   nextId, frameLog, submitted>>

\* Colormap textures created so far, and those the pending selection will
\* still make the loop create.
TexturesCreated == 1 + (nextId - (FirstFreeId + 2)) \div 2
TexturesOwed(sel) ==
    (IF pc = "load" THEN 1 ELSE 0) + (IF sel # colormapName /\ pc # "stopped" THEN 1 ELSE 0)

\* The user chooses another entry of the colormap picker (async variant only).
PickColormap ==
    \E sel \in Colormaps \ {picker} :
        /\ variant = "async"
        /\ TexturesCreated + TexturesOwed(sel) <= MaxTextures
        /\ picker' = sel
        /\ last' = "event"
        /\ UNCHANGED <<boot, variant, pc, rafQueue, hidden, camera, projView, upload, viewParams,
                       colormapName, loading, colormapTexture, bindGroupEntries, bindGroup,
                       nextId, frameLog, submitted>>

\* ------------------------------------------------------------ the program
\* uploadImage(device, colormaps[name]) resolved: a new 2-D texture holding
\* the named colormap
UploadImage(id, name) == Texture(id, name)
\* (faulty variants: the view is stored in the volume's entry; the entry is
\* not updated at all)
SwapEntries_WrongSlot(entries, tex) == [entries EXCEPT ![1].resource = CreateView(tex)]
SwapEntries_Forgotten(entries, tex) == entries
\* bindGroupEntries[2].resource = colormapTexture.createView()
SwapEntries(entries, tex) == [entries EXCEPT ![2].resource = CreateView(tex)]
\* (a faulty variant: the entries are changed but the bind group is kept)
RebuildBindGroup_Stale(id, v, entries, old) == old
\* bindGroup = device.createBindGroup({layout: bindGroupLayout, entries: bindGroupEntries})
RebuildBindGroup(id, v, entries, old) == CreateBindGroup(id, bindGroupLayout(v), entries)
\* (faulty variants: the colormap is reloaded in every frame; it is never
\* reloaded)
SelectionChanged_Always(name, pick) == TRUE
SelectionChanged_Never(name, pick) == FALSE
\* if (colormapName != colormapPicker.value)
SelectionChanged(name, pick) == name # pick

\* (faulty variants: the callback is never queued; it is queued twice)
RequestAnimationFrame_Never(q, callback) == q
RequestAnimationFrame_Twice(q, callback) == Append(Append(q, callback), callback)
\* requestAnimationFrame(callback): the host will call it on a later tick
RequestAnimationFrame(q, callback) == Append(q, callback)
\* (a faulty variant: a frame that threw still asks for the next tick)
FrameAbandoned_Retry(q) == Append(Tail(q), Head(q))
\* The tick queue after a callback that threw: the callback has been taken
\* off and the requestAnimationFrame at its end was not reached.
FrameAbandoned(q) == Tail(q)

\* From a mapped staging buffer to the submit: fill and unmap the buffer,
\* record the copy and the render pass, submit.
FrameResult(v, u0, pv, cam, bg, uniform, docHidden) ==
    LET u == StageRecord(u0, pv, cam)
        cmds == RecordCommands(v, bg)
    IN [upload |-> u,
        submitted |-> Submit(cmds, u, uniform, docHidden),
        calls |-> StageCalls \o <<"createCommandEncoder">> \o OpsOf(cmds) \o <<"submit">>]

\* await upload.mapAsync(...): the loop waits for the mapping, unless the call
\* was rejected, which ends the async function
AfterMapAsync(u) == IF u.fault THEN "stopped" ELSE "map"

\* async: the function animationFrame run as a requestAnimationFrame callback
\* (requestAnimationFrame(animationFrame), once before the loop): it makes a
\* promise nobody awaits and requests a tick that resolves it.
AnimationFrameCallback ==
    /\ variant = "async"
    /\ rafQueue # <<>> /\ Head(rafQueue) = "animationFrame"
    /\ rafQueue' = RequestAnimationFrame(Tail(rafQueue), "resolveOrphan")
    /\ last' = "noop"
    /\ UNCHANGED <<boot, variant, pc, hidden, camera, projView, upload, viewParams, picker,
                   colormapName, loading, colormapTexture, bindGroupEntries, bindGroup,
                   nextId, frameLog, submitted>>

\* async: a tick resolves the promise that nobody awaits.
ResolveOrphan ==
    /\ variant = "async"
    /\ rafQueue # <<>> /\ Head(rafQueue) = "resolveOrphan"
    /\ rafQueue' = Tail(rafQueue)
    /\ last' = "noop"
    /\ UNCHANGED <<boot, variant, pc, hidden, camera, projView, upload, viewParams, picker,
                   colormapName, loading, colormapTexture, bindGroupEntries, bindGroup,
                   nextId, frameLog, submitted>>

\* async: the tick the loop awaits arrives and the loop runs to its next
\* await: back to the tick wait when hidden, else into uploadImage when the
\* selection changed, else into upload.mapAsync.
LoopResume ==
    /\ variant = "async"
    /\ pc = "tick"
    /\ rafQueue # <<>> /\ Head(rafQueue) = "resolve"
    /\ IF hidden
       THEN /\ rafQueue' = RequestAnimationFrame(Tail(rafQueue), "resolve")
            /\ frameLog' = <<>>
            /\ last' = "skip"
            /\ UNCHANGED <<pc, projView, upload, colormapName, loading>>
       ELSE IF SelectionChanged(colormapName, picker)
       THEN /\ colormapName' = picker
            /\ loading' = picker
            /\ pc' = "load"
            /\ rafQueue' = Tail(rafQueue)
            /\ frameLog' = <<"uploadImage">>
            /\ last' = "reload"
            /\ UNCHANGED <<projView, upload>>
       ELSE /\ projView' = UpdateProjView(camera)
            /\ upload' = MapAsync(upload)
            /\ pc' = AfterMapAsync(upload')
            /\ rafQueue' = Tail(rafQueue)
            /\ frameLog' = <<"mat4.mul", "mapAsync">>
            /\ last' = "update"
            /\ UNCHANGED <<colormapName, loading>>
    /\ UNCHANGED <<boot, variant, hidden, camera, viewParams, picker, colormapTexture,
                   bindGroupEntries, bindGroup, nextId, submitted>>

\* async: uploadImage resolves; the loop installs the texture, rebuilds the
\* bind group and runs on into upload.mapAsync.
LoadDone ==
    /\ variant = "async"
    /\ pc = "load"
    /\ LET tex == UploadImage(nextId, loading)
           entries == SwapEntries(bindGroupEntries, tex)
       IN /\ colormapTexture' = tex
          /\ bindGroupEntries' = entries
          /\ bindGroup' = RebuildBindGroup(nextId + 1, variant, entries, bindGroup)
    /\ nextId' = nextId + 2
    /\ loading' = NoLoad
    /\ projView' = UpdateProjView(camera)
    /\ upload' = MapAsync(upload)
    /\ pc' = AfterMapAsync(upload')
    /\ frameLog' = frameLog \o <<"createView", "createBindGroup", "mat4.mul", "mapAsync">>
    /\ last' = "rebuild"
    /\ UNCHANGED <<boot, variant, rafQueue, hidden, camera, viewParams, picker, colormapName,
                   submitted>>

\* async: uploadImage rejects; nothing catches it, so the async function ends.
LoadFail ==
    /\ variant = "async"
    /\ pc = "load"
    /\ pc' = "stopped"
    /\ loading' = NoLoad
    /\ last' = "failed"
    /\ UNCHANGED <<boot, variant, rafQueue, hidden, camera, projView, upload, viewParams, picker,
                   colormapName, colormapTexture, bindGroupEntries, bindGroup, nextId,
                   frameLog, submitted>>

\* async: the mapping resolves; the loop fills the buffer, records, submits
\* and goes round to "await animationFrame()".
MapDone ==
    /\ variant = "async"
    /\ pc = "map"
    /\ upload.state = "pending"
    /\ LET r == FrameResult(variant, MapResolved(upload), projView, camera, bindGroup,
                            viewParams, hidden)
       IN /\ upload' = r.upload
          /\ IF r.upload.fault
             THEN \* getMappedRange threw: the async function ends
                  /\ pc' = "stopped"
                  /\ last' = "threw"
                  /\ UNCHANGED <<frameLog, submitted, viewParams, rafQueue>>
             ELSE /\ frameLog' = frameLog \o r.calls
                  /\ submitted' = r.submitted
                  /\ viewParams' = r.submitted.uniform
                  /\ pc' = "tick"
                  /\ rafQueue' = RequestAnimationFrame(rafQueue, "resolve")
                  /\ last' = "submit"
    /\ UNCHANGED <<boot, variant, hidden, camera, projView, picker, colormapName, loading,
                   colormapTexture, bindGroupEntries, bindGroup, nextId>>

\* callback: frame() runs: when the page is shown it renders one whole frame
\* with a staging buffer created mapped; in both cases it requests the next tick.
FrameCallback ==
    /\ variant = "callback"
    /\ rafQueue # <<>> /\ Head(rafQueue) = "frame"
    /\ IF hidden
       THEN /\ frameLog' = <<>>
            /\ last' = "skip"
            /\ rafQueue' = RequestAnimationFrame(Tail(rafQueue), "frame")
            /\ UNCHANGED <<pc, projView, upload, submitted, viewParams>>
       ELSE LET pv == UpdateProjView(camera)
                r == FrameResult(variant, CreateBuffer(TRUE), pv, camera, bindGroup,
                                 viewParams, hidden)
            IN /\ projView' = pv
               /\ upload' = r.upload
               /\ IF r.upload.fault
                  THEN \* getMappedRange threw: frame() ends before it requests a tick
                       /\ pc' = "stopped"
                       /\ last' = "threw"
                       /\ rafQueue' = FrameAbandoned(rafQueue)
                       /\ UNCHANGED <<frameLog, submitted, viewParams>>
                  ELSE /\ frameLog' = <<"mat4.mul", "createBuffer">> \o r.calls
                       /\ submitted' = r.submitted
                       /\ viewParams' = r.submitted.uniform
                       /\ last' = "submit"
                       /\ rafQueue' = RequestAnimationFrame(Tail(rafQueue), "frame")
                       /\ UNCHANGED pc
    /\ UNCHANGED <<boot, variant, hidden, camera, picker, colormapName, loading,
                   colormapTexture, bindGroupEntries, bindGroup, nextId>>

\* async: upload.mapAsync rejects (the device was lost); nothing catches it,
\* so the async function ends.
MapFail ==
    /\ variant = "async"
    /\ pc = "map"
    /\ upload.state = "pending"
    /\ upload' = [upload EXCEPT !.state = "unmapped"]
    /\ pc' = "stopped"
    /\ last' = "threw"
    /\ UNCHANGED <<boot, variant, rafQueue, hidden, camera, projView, viewParams, picker,
                   colormapName, loading, colormapTexture, bindGroupEntries, bindGroup,
                   nextId, frameLog, submitted>>

\* callback: a GPU call of a shown frame throws (createBuffer, the first of
\* them, is taken); frame() ends there.
FrameThrow ==
    /\ variant = "callback"
    /\ pc # "stopped"
    /\ rafQueue # <<>> /\ Head(rafQueue) = "frame"
    /\ ~hidden
    /\ projView' = UpdateProjView(camera)
    /\ frameLog' = <<"mat4.mul", "createBuffer">>
    /\ rafQueue' = FrameAbandoned(rafQueue)
    /\ pc' = "stopped"
    /\ last' = "threw"
    /\ UNCHANGED <<boot, variant, hidden, camera, upload, viewParams, picker, colormapName,
                   loading, colormapTexture, bindGroupEntries, bindGroup, nextId,
                   submitted>>

Next ==
    \/ Mousemove
    \/ Wheel
    \/ Pinch
    \/ TwoFingerDrag
    \/ VisibilityChange
    \/ PickColormap
    \/ AnimationFrameCallback
    \/ ResolveOrphan
    \/ LoopResume
    \/ LoadDone
    \/ LoadFail
    \/ MapDone
    \/ MapFail
    \/ FrameCallback
    \/ FrameThrow

Spec == Init /\ [][Next]_vars

\* ------------------------------------------------- the program from its start
\* The variables of the frame loop; startup leaves them alone until it
\* enters the loop.
loopVars == <<variant, pc, rafQueue, hidden, camera, projView, upload, viewParams,
              picker, colormapName, loading, colormapTexture, bindGroupEntries,
              bindGroup, nextId, frameLog, submitted, last>>
NoBindGroup == [id |-> 0, resources |-> <<>>, bindings |-> <<>>, valid |-> FALSE]

\* The page has loaded and the startup function has not run yet.  The
\* callback variant never reads the URL fragment.
StartInit ==
    /\ variant \in Variants
    /\ boot \in {StartBoot(gpu, hash) :
                    gpu \in BOOLEAN,
                    hash \in (IF variant = "async" THEN Hashes ELSE {<<>>})}
    /\ pc = "startup"
    /\ rafQueue = <<>>
    /\ hidden \in BOOLEAN
    /\ camera = NoPose
    /\ projView = IdentityMatrix
    /\ upload = NoBuffer
    /\ viewParams = ZeroRecord
    /\ colormapName = NoLoad
    /\ picker \in (IF variant = "async" THEN Colormaps ELSE {StartColormap(variant)})
    /\ loading = NoLoad
    /\ colormapTexture = Texture(0, NoLoad)
    /\ bindGroupEntries = <<>>
    /\ bindGroup = NoBindGroup
    /\ nextId = FirstFreeId
    /\ frameLog = <<>>
    /\ submitted = NoSubmission
    /\ last = "start"

\* The startup function runs up to "await navigator.gpu.requestAdapter()".
Begin ==
    /\ boot.phase = "start"
    /\ boot' = IF ~boot.gpu THEN ShowNoWebGPU(boot)
               ELSE [boot EXCEPT !.phase = "requestAdapter"]
    /\ UNCHANGED loopVars

\* requestAdapter resolves, with an adapter or with null.
AdapterResolved ==
    /\ boot.phase = "requestAdapter"
    /\ \E a \in {"null", "adapter"} :
          boot' = AfterRequestAdapter(variant, [boot EXCEPT !.adapter = a])
    /\ UNCHANGED loopVars

\* requestDevice resolves; the shader module is created and its
\* compilationInfo is awaited.
DeviceResolved ==
    /\ boot.phase = "requestDevice"
    /\ boot' = [boot EXCEPT !.created = Append(@, "createShaderModule"),
                            !.phase = "compilationInfo"]
    /\ UNCHANGED loopVars

\* compilationInfo resolves.  Without an error startup goes on: the async
\* variant to "await uploadImage" (unless the URL fragment names no volume),
\* the callback variant to "await colormapImage.decode()".
CompilationInfoResolved ==
    /\ boot.phase = "compilationInfo"
    /\ \E messages \in MessageLists :
          LET b == AfterCompilationInfo(boot, messages)
          IN boot' = IF b.phase = "shaderError" THEN b
                     ELSE IF variant = "async" THEN ReadHash(CreateGeometry(b))
                     ELSE [CreateGeometry(b) EXCEPT !.phase = "decode"]
    /\ UNCHANGED loopVars

\* async: uploadImage resolves with the first colormap texture.
ImageUploaded ==
    /\ variant = "async"
    /\ boot.phase = "uploadImage"
    /\ boot' = [boot EXCEPT !.created = Append(@, "createTexture"),
                            !.phase = "uploadRadarVolume"]
    /\ UNCHANGED loopVars

\* async: uploadRadarVolume resolves with the volume texture.
RadarVolumeUploaded ==
    /\ variant = "async"
    /\ boot.phase = "uploadRadarVolume"
    /\ boot' = [boot EXCEPT !.created = Append(@, "createTexture"),
                            !.phase = "uploadData"]
    /\ UNCHANGED loopVars

\* callback: colormapImage.decode() resolves.
ImageDecoded ==
    /\ variant = "callback"
    /\ boot.phase = "decode"
    /\ boot' = [boot EXCEPT !.phase = "createImageBitmap"]
    /\ UNCHANGED loopVars

\* callback: createImageBitmap resolves; the colormap texture and the volume
\* texture are created and the volume's file is fetched.
BitmapReady ==
    /\ variant = "callback"
    /\ boot.phase = "createImageBitmap"
    /\ \E dims \in VolumeDims :
          boot' = [boot EXCEPT !.created = @ \o <<"createTexture", "createTexture">>,
                               !.volumeName = "Foot",
                               !.volume = [NoVolume EXCEPT !.textureSize = dims],
                               !.phase = "fetchVolume"]
    /\ UNCHANGED loopVars

\* The GPU objects the end of startup creates, in call order: the async
\* variant builds the pipeline before the bind group and then creates the
\* staging buffer; the callback variant builds the bind group first.
StartupObjects(v) ==
    IF v = "async"
    THEN <<"createBindGroupLayout", "createPipelineLayout", "createRenderPipeline",
           "createBindGroup", "createBuffer">>
    ELSE <<"createBindGroupLayout", "createBindGroup", "createPipelineLayout",
           "createRenderPipeline">>
\* The end of startup: the bind group layout, the bind group and the
\* pipeline are created, the camera and its handlers are set up, the first
\* tick is requested and (async) the loop reaches "await animationFrame()".
EnterLoop(b) ==
    /\ boot' = [b EXCEPT !.created = @ \o StartupObjects(variant), !.phase = "running"]
    /\ pc' = "tick"
    /\ rafQueue' = IF variant = "async"
                   THEN RequestAnimationFrame(
                            RequestAnimationFrame(rafQueue, "animationFrame"), "resolve")
                   ELSE RequestAnimationFrame(rafQueue, "frame")
    /\ camera' = DefaultPose
    /\ projView' = IdentityMatrix
    /\ upload' = IF variant = "async" THEN CreateBuffer(FALSE) ELSE NoBuffer
    /\ colormapName' = StartColormap(variant)
    /\ colormapTexture' = Texture(nextId, StartColormap(variant))
    /\ bindGroupEntries' = InitialEntries(variant, colormapTexture')
    /\ bindGroup' = CreateBindGroup(nextId + 1, bindGroupLayout(variant), bindGroupEntries')
    /\ nextId' = nextId + 2
    /\ last' = "start"
    /\ UNCHANGED <<variant, hidden, viewParams, picker, loading, frameLog, submitted>>

\* async: uploadData resolves with the data buffer, which is logged:
\* console.log(volumeDataBuffer).
DataUploaded ==
    /\ variant = "async"
    /\ boot.phase = "uploadData"
    /\ EnterLoop([boot EXCEPT !.created = Append(@, "createBuffer"),
                              !.console = Append(@, "volumeDataBuffer")])

\* callback: fetchVolume resolves; the file is staged in a buffer, the copy
\* into the volume texture is submitted, and startup waits once more:
\* "await device.queue.submit([...])".
VolumeFetched ==
    /\ variant = "callback"
    /\ boot.phase = "fetchVolume"
    /\ boot' = [boot EXCEPT !.created = Append(@, "createBuffer"),
                            !.volume = VolumeUpload(boot.volume.textureSize),
                            !.phase = "submit"]
    /\ UNCHANGED loopVars

\* callback: the await of submit's result (undefined) is over.
VolumeSubmitted ==
    /\ variant = "callback"
    /\ boot.phase = "submit"
    /\ EnterLoop(boot)

\* The user chooses a volume in the volume picker; no handler is registered
\* for it and the loop does not read it.
PickVolume ==
    /\ boot.pickersFilled
    /\ \E sel \in VolumeNames \ {boot.volumePicker} :
          boot' = [boot EXCEPT !.volumePicker = sel]
    /\ UNCHANGED loopVars

\* a step of startup
StartupStep ==
    \/ Begin
    \/ AdapterResolved
    \/ DeviceResolved
    \/ CompilationInfoResolved
    \/ ImageUploaded
    \/ RadarVolumeUploaded
    \/ DataUploaded
    \/ ImageDecoded
    \/ BitmapReady
    \/ VolumeFetched
    \/ VolumeSubmitted
\* a step the program takes once the loop runs
LoopStep ==
    \/ AnimationFrameCallback
    \/ ResolveOrphan
    \/ LoopResume
    \/ LoadDone
    \/ LoadFail
    \/ MapDone
    \/ MapFail
    \/ FrameCallback
    \/ FrameThrow

StartNext ==
    \/ StartupStep
    \/ LoopStep
    \/ VisibilityChange
    \/ PickVolume

\* The program from the page load on; the camera and the colormap picker are
\* left alone (the picker holds the value chosen before the loop starts).
StartSpec == StartInit /\ [][StartNext]_vars

\* ------------------------------------------------- the loop, fairly scheduled
\* The loop with the page's visibility and the colormap picker as its only
\* inputs (the camera stays where it is).
LiveNext ==
    \/ LoopStep
    \/ VisibilityChange
    \/ PickColormap
\* The loop's tick arrives while the page is shown and a frame starts: the
\* step LoopResume or FrameCallback then takes, told by what it leaves in `last`.
VisibleTick ==
    /\ ~hidden
    /\ pc = "tick"
    /\ rafQueue # <<>> /\ Head(rafQueue) = (IF variant = "async" THEN "resolve" ELSE "frame")
    /\ last' = IF variant = "callback" THEN "submit"
               ELSE IF SelectionChanged(colormapName, picker) THEN "reload" ELSE "update"
\* The mapping the loop awaits resolves: the step MapDone takes.
MappingResolves == pc = "map" /\ pc' = "tick"
\* The host runs the callbacks queued ahead of the loop's and completes every
\* load and every mapping; a page that is shown again and again gets the
\* loop's tick while it is shown.
Fairness ==
    /\ WF_vars(AnimationFrameCallback)
    /\ WF_vars(ResolveOrphan)
    /\ WF_vars(LoadDone)
    /\ WF_pc(MappingResolves)
    /\ SF_last(VisibleTick)
LiveSpec == Init /\ [][LiveNext]_vars /\ Fairness
\* The two steps fairness is asked of are steps of the program: a frame started
\* by the loop's tick on a shown page, and MapDone.
FairStepsAreProgramSteps ==
    [][ /\ (VisibleTick /\ last' # last) <=> (~hidden /\ (LoopResume \/ FrameCallback))
        /\ (MappingResolves /\ pc' # pc) <=> (MapDone /\ last' = "submit") ]_vars

\* Startup enters the loop in a state the loop's own specification starts in.
EntersLoopAsInit == boot.phase = "running" /\ last = "start" => LoopInit

\* ----------------------------------------------------------------- claims
\* the poses the written floats of a view-parameter record were computed from
MatrixPoses(rec) == {rec[i].of : i \in 1..MatrixFloats}
EyePoses(rec) == {rec[i].of : i \in (MatrixFloats + 1)..(MatrixFloats + 3)}
InitialBindGroupId == FirstFreeId + 1
\* the first and the last place of a call in a frame's log (0 when absent)
Places(log, call) == {i \in 1..Len(log) : log[i] = call}
Max(S) == CHOOSE x \in S : \A y \in S : y <= x
Min(S) == CHOOSE x \in S : \A y \in S : x <= y
FirstPlace(log, call) == IF Places(log, call) = {} THEN 0 ELSE Min(Places(log, call))
LastPlace(log, call) == IF Places(log, call) = {} THEN 0 ELSE Max(Places(log, call))
\* the calls of `calls` all occur, each after the one before it
InOrder(log, calls) ==
    /\ \A k \in 1..Len(calls) : Places(log, calls[k]) # {}
    /\ \A k \in 1..(Len(calls) - 1) : LastPlace(log, calls[k]) < FirstPlace(log, calls[k + 1])
EndOp == IF variant = "async" THEN "end" ELSE "endPass"

\* C1: whenever a frame has just been submitted, the record copied to the
\* uniform buffer comes from one camera state: the projection-view floats and
\* the eye-position floats were computed from the same pose.
C1_RecordFromOneSnapshot ==
    last = "submit" =>
        \A p \in MatrixPoses(viewParams), e \in EyePoses(viewParams) : p = e

\* C2: whenever a frame has just been submitted, the page was not hidden at
\* the moment of the device.queue.submit.
C2_NoSubmitWhileHidden ==
    last = "submit" => ~submitted.docHidden

\* C3: when a colormap reload has just failed, the frame loop is still alive
\* (suspended at one of its awaits) with the previous bind group installed.
C3_FailedReloadIsCaught ==
    last = "failed" => pc \in {"tick", "load", "map"} /\ bindGroup.valid

\* C4: a step that replaces the bind group (a colormap swap) leaves every
\* binding but 2 holding the same resource, and leaves the camera, the
\* projection and the uniform buffer's contents alone.
C4_SwapChangesOnlyBinding2 ==
    [][bindGroup' # bindGroup =>
          /\ DOMAIN bindGroup'.bindings = DOMAIN bindGroup.bindings
          /\ \A b \in DOMAIN bindGroupLayout(variant) \ {2} :
                 /\ BoundAt(bindGroup', b) = BoundAt(bindGroup, b)
                 /\ bindGroupEntries'[b] = bindGroupEntries[b]
          /\ BoundAt(bindGroup', 2) = CreateView(colormapTexture')
          /\ camera' = camera
          /\ viewParams' = viewParams]_vars
\* a swap has happened after the camera was moved
C4_Witness ==
    /\ last = "rebuild"
    /\ bindGroup.id # InitialBindGroupId
    /\ BoundAt(bindGroup, 2).of.name # StartColormap(variant)
    /\ camera # DefaultPose

\* C5: a camera operation changes nothing of the resource set and starts no
\* load; the loop enters a reload only from the tick wait with a picker value
\* that differs from colormapName, and the bind group, the entries and the
\* colormap texture change only when that reload completes.
C5_OnlySelectionRebuilds ==
    [][/\ camera' # camera =>
             UNCHANGED <<bindGroup, bindGroupEntries, colormapTexture, nextId, loading,
                         colormapName, pc>>
       /\ (pc # "load" /\ pc' = "load") => (pc = "tick" /\ ~hidden /\ colormapName # picker)
       /\ (bindGroup' # bindGroup \/ bindGroupEntries' # bindGroupEntries
              \/ colormapTexture' # colormapTexture \/ nextId' # nextId) => pc = "load"]_vars
\* frames were submitted after camera moves and the first bind group is still
\* the installed one
C5_Witness ==
    /\ variant = "async"
    /\ last = "submit"
    /\ camera.rot + camera.pan + camera.zoom = MaxMoves
    /\ MatrixPoses(viewParams) = {camera}
    /\ bindGroup.id = InitialBindGroupId

\* C6: when a frame has just been submitted, its calls were made in the order
\* (reload, rebuild,) projection, fill and unmap of the staging buffer, copy,
\* render pass, submit; the submitted command buffer holds the copy before the
\* render pass, and its one draw read the record this frame staged.
C6_FrameStepsInOrder ==
    last = "submit" =>
        /\ InOrder(frameLog, <<"mat4.mul", "set", "unmap", "copyBufferToBuffer",
                               "beginRenderPass", "draw", EndOp, "submit">>)
        /\ Places(frameLog, "submit") = {Len(frameLog)}
        /\ Places(frameLog, "uploadImage") # {} =>
               InOrder(frameLog, <<"uploadImage", "createBindGroup", "mat4.mul">>)
        /\ Places(frameLog, "createBindGroup") # {} => Places(frameLog, "uploadImage") # {}
        /\ InOrder(OpsOf(submitted.cmds), <<"copyBufferToBuffer", "beginRenderPass", "draw", EndOp>>)
        /\ submitted.draws = 1
        /\ submitted.drawSaw = upload.data
\* a frame that reloaded the colormap has been submitted
C6_Witness ==
    /\ last = "submit"
    /\ Places(frameLog, "uploadImage") # {}
    /\ submitted.drawSaw = upload.data

\* the floats a frame writes: the matrix and the three of the eye position
WrittenFloats == 1..(MatrixFloats + 3)
\* C7: the staging buffer keeps its mapping protocol: no write outside a
\* mapping and no mapAsync on a mapped or pending buffer ever occurred; the
\* persistent buffer is pending exactly while the loop awaits its mapping and
\* unmapped otherwise; and when a frame has just been submitted the buffer was
\* unmapped at the submit, after the whole record had been written and before
\* the copy was recorded.
C7_StagingMappingProtocol ==
    /\ ~upload.fault
    /\ variant = "async" => (upload.state = IF pc = "map" THEN "pending" ELSE "unmapped")
    /\ variant = "callback" => upload.state \in {"none", "unmapped"}
    /\ last = "submit" =>
          /\ submitted.staging = "unmapped"
          /\ upload.state = "unmapped"
          /\ \A i \in WrittenFloats : upload.data[i] # ZeroFloat
          /\ InOrder(frameLog, <<"getMappedRange", "set", "unmap", "copyBufferToBuffer", "submit">>)
\* the persistent buffer is being mapped again after a frame that used it
C7_Witness ==
    /\ variant = "async"
    /\ pc = "map" /\ upload.state = "pending"
    /\ submitted.staging = "unmapped"
    /\ \A i \in WrittenFloats : upload.data[i] # ZeroFloat

\* C8: in the async variant, when a frame has just recorded its render pass
\* and been submitted, the bind group it set holds at binding 2 the view of
\* colormapTexture, and that texture was loaded for colormapName.
C8_DrawUsesSelectedColormap ==
    (variant = "async" /\ last = "submit") =>
        /\ \E i \in 1..Len(submitted.cmds) :
               /\ submitted.cmds[i].op = "setBindGroup"
               /\ submitted.cmds[i].args = <<0, bindGroup.id>>
        /\ BoundAt(bindGroup, 2) = CreateView(colormapTexture)
        /\ BoundAt(bindGroup, 2).of.name = colormapName
\* a frame drew with a reloaded colormap although the picker had been changed
\* again before the reload finished
C8_Witness ==
    /\ variant = "async" /\ last = "submit"
    /\ Places(frameLog, "uploadImage") # {}
    /\ picker # colormapName
    /\ BoundAt(bindGroup, 2).of.name = colormapName
    /\ colormapName # StartColormap(variant)

\* C9: in every state (the loop is then at an await, or has stopped) the
\* installed bind group is valid for the layout, holds one resource for each
\* slot of the layout and no other, and holds exactly the resources that
\* bindGroupEntries names now.
C9_BindGroupMatchesLayoutAndEntries ==
    /\ bindGroup.valid
    /\ DOMAIN bindGroup.resources = DOMAIN bindGroupLayout(variant)
    /\ \A b \in DOMAIN bindGroupLayout(variant) :
           /\ Cardinality({i \in DOMAIN bindGroup.bindings : bindGroup.bindings[i] = b}) = 1
           /\ BoundAt(bindGroup, b).type = bindGroupLayout(variant)[b]
           /\ BoundAt(bindGroup, b) = bindGroupEntries[b].resource
           /\ bindGroupEntries[b].binding = b
\* a rebuilt bind group is installed and a frame has drawn with it
C9_Witness ==
    /\ last = "submit"
    /\ bindGroup.id # InitialBindGroupId
    /\ bindGroupEntries[2].resource # InitialEntries(variant, Texture(FirstFreeId, StartColormap(variant)))[2].resource
    /\ Cardinality(DOMAIN bindGroup.resources) = 5

\* a step that runs the oldest requestAnimationFrame callback: every such
\* step, and no other, ends as one of these kinds
TickDelivered ==
    \/ last' \in {"skip", "noop", "reload", "update"}
    \/ variant = "callback" /\ last' = "submit"
\* (the first half of C10 alone)
HiddenTickIsIdle ==
    [][(hidden /\ TickDelivered) =>
          UNCHANGED <<pc, camera, projView, upload, viewParams, picker, colormapName,
                      loading, colormapTexture, bindGroupEntries, bindGroup, nextId,
                      submitted>>]_vars

\* C10: a tick delivered while the page is hidden changes nothing but the
\* tick queue, and while the page stays hidden colormapName, the bind group
\* and the camera stay what they were when it was hidden.
C10_HiddenChangesNothing ==
    [][hidden =>
          /\ TickDelivered =>
                UNCHANGED <<pc, camera, projView, upload, viewParams, picker, colormapName,
                            loading, colormapTexture, bindGroupEntries, bindGroup, nextId,
                            submitted>>
          /\ hidden' => UNCHANGED <<colormapName, bindGroup, camera>>]_vars

\* ---------------------------------------------------------- startup claims
\* startup has returned or thrown, or the loop has ended by a throw
ProgramEnded ==
    boot.phase \in {"unsupported", "crashed", "shaderError", "badLink"} \/ pc = "stopped"
\* the requirement for WebGPU was tested and not met
CapabilityMissing == (boot.phase # "start" /\ ~boot.gpu) \/ boot.adapter = "null"
\* compilationInfo has resolved and its messages were looked at
Compiled ==
    /\ boot.phase \notin {"start", "requestAdapter", "requestDevice", "compilationInfo",
                          "unsupported"}
    /\ ~(boot.phase = "crashed" /\ boot.adapter = "null")
ErrorAmong(messages) == \E i \in 1..Len(messages) : messages[i].type = "error"
NothingScheduled == rafQueue = <<>> /\ pc = "startup" /\ submitted = NoSubmission
\* a program that has ended has no step left to take
EndedIsTerminal == boot.phase # "running" /\ ProgramEnded => ~ENABLED (StartupStep \/ LoopStep)

\* C11: when navigator.gpu is undefined or requestAdapter yields null, startup
\* ends with the notice shown and the canvas hidden, no device requested, no
\* GPU resource created and no frame scheduled or submitted, in both variants.
C11_NoWebGPUShowsNotice ==
    CapabilityMissing =>
        /\ boot.phase = "unsupported"
        /\ boot.notice /\ boot.canvasHidden
        /\ ~boot.deviceRequested
        /\ boot.created = <<>>
        /\ NothingScheduled

\* C12: every compilation message is logged with its line and column; when
\* one of them is an error startup ends there, with no pipeline and no bind
\* group created, no tick requested and no frame submitted; when none is an
\* error (warnings and infos only, or no message) startup proceeds to
\* rendering: it does not end before the frame loop is entered.
C12_ShaderErrorEndsStartup ==
    Compiled =>
        /\ \A i \in 1..Len(boot.messages) :
              boot.console[i + 1] =
                  <<boot.messages[i].lineNum, ":", boot.messages[i].linePos, " - ",
                    boot.messages[i].message>>
        /\ IF ErrorAmong(boot.messages)
           THEN /\ boot.phase = "shaderError"
                /\ \A k \in 1..Len(boot.created) :
                      boot.created[k] \notin {"createRenderPipeline", "createBindGroup"}
                /\ NothingScheduled
           ELSE boot.phase \notin {"shaderError", "badLink", "crashed"}

\* the URL fragment was read and names no volume of the table
BadLink ==
    /\ boot.pickersFilled /\ boot.hash # <<>>
    /\ ~LinkedDataset(boot.hash).threw
    /\ LinkedDataset(boot.hash).value \notin VolumeNames
\* C14: a URL fragment that names no volume is answered with an alert and can
\* be recovered from: once a volume is chosen in the picker the program is
\* still running and can reach rendering.
C14_BadLinkIsRecoverable ==
    BadLink =>
        /\ boot.alerts = <<LinkedDataset(boot.hash).value>>
        /\ boot.volumePicker \in VolumeNames => ~ProgramEnded

\* C15: the volume upload uses a bytesPerRow that is a multiple of 256, a
\* buffer of bytesPerRow * height * depth bytes, and a texture of the
\* volume's own dimensions.
C15_VolumeRowsAligned ==
    boot.volume.bufferSize > 0 =>
        LET dims == boot.volume.copySize
        IN /\ boot.volume.bytesPerRow % RowAlignment = 0
           /\ boot.volume.bytesPerRow >= dims[1]
           /\ boot.volume.bufferSize = boot.volume.bytesPerRow * dims[2] * dims[3]
           /\ boot.volume.textureSize = dims

\* ------------------------------------------------------- frame loop claims
\* no callback that would run the loop is waiting for a tick
NoTickPending(q) == \A i \in 1..Len(q) : q[i] \notin {"resolve", "frame"}
LoopCallback(v) == IF v = "async" THEN "resolve" ELSE "frame"
Count(q, callback) == Cardinality({i \in 1..Len(q) : q[i] = callback})
FrameFinished(log) == log = <<>> \/ log[Len(log)] = "submit"
\* C16: at most one frame is in progress.  One tick is requested for the loop
\* while it waits for a tick and none while a frame is between its tick and
\* its submit (the extra requestAnimationFrame(animationFrame) only queues
\* callbacks that do not run the loop), and a frame starts only when the
\* frame before it has submitted.
C16_OneFrameAtATime ==
    [][ /\ Count(rafQueue, LoopCallback(variant)) = IF pc = "tick" THEN 1 ELSE 0
        /\ Count(rafQueue', LoopCallback(variant)) = IF pc' = "tick" THEN 1 ELSE 0
        /\ last' \in {"reload", "update", "rebuild", "submit", "threw", "failed"}
              => (pc = "tick" => FrameFinished(frameLog)) /\ pc # "stopped" ]_vars
C16_Witness ==
    /\ variant = "async"
    /\ pc = "map"
    /\ rafQueue = <<"resolveOrphan">>

\* the render pass of a command buffer: from beginRenderPass to the end
PassOf(cmds) ==
    SubSeq(cmds, FirstPlace(OpsOf(cmds), "beginRenderPass"), LastPlace(OpsOf(cmds), EndOp))
PassUpToDraw(bg) ==
    << Cmd("beginRenderPass", <<"getCurrentTexture().createView()", ClearColor>>),
       Cmd("setPipeline", <<renderPipeline.id>>),
       Cmd("setBindGroup", <<0, bg.id>>),
       Cmd("setVertexBuffer", <<0, vertexBuffer.id>>),
       Cmd("setIndexBuffer", <<indexBuffer.id, "uint16">>) >>
\* C17 as stated: the render pass of every submitted frame clears to
\* (0.3, 0.3, 0.3, 1) on the current surface view, sets the pipeline, the bind
\* group at group 0, the vertex buffer and the 16-bit index buffer, issues
\* exactly one indexed draw over all the cube's strip indices, and ends.
C17_PassHasOneIndexedDraw ==
    last = "submit" =>
        /\ SubSeq(PassOf(submitted.cmds), 1, 5) = PassUpToDraw(bindGroup)
        /\ Len(PassOf(submitted.cmds)) = 7
        /\ PassOf(submitted.cmds)[6].op = "drawIndexed"
        /\ PassOf(submitted.cmds)[7].op = EndOp

\* Nothing in the loop calls destroy() on a texture: every colormap texture
\* created is still allocated.
LiveColormapTextures == TexturesCreated
\* C20: at every wait for a tick at most one colormap texture is created and
\* not released: a selection change frees the old texture.
C20_OneColormapTextureAlive ==
    pc = "tick" => LiveColormapTextures <= 1

\* the frame just submitted set a bind group whose binding 2 is the view of
\* the texture loaded for the colormap `name`
SubmittedWith(name) ==
    /\ last = "submit"
    /\ submitted.cmds[FirstPlace(OpsOf(submitted.cmds), "setBindGroup")].args
          = <<0, bindGroup.id>>
    /\ BoundAt(bindGroup, 2).of.name = name
\* C18: a colormap selection is not lost.  If from some time on the picker
\* holds X, the page is shown again and again and nothing fails, then frames
\* are submitted whose bind group holds the texture loaded for X.  A
\* selection is taken up only by a frame of a shown page, and by the first of
\* them: a shown frame goes on without a reload only when colormapName is the
\* picker's value.
C18_SelectionIsNotLost ==
    /\ [][ /\ colormapName' # colormapName =>
                ~hidden /\ last' = "reload" /\ colormapName' = picker
           /\ last' = "update" => colormapName = picker ]_vars
    /\ \A X \in Colormaps :
          (<>[](picker = X) /\ []<>(~hidden) /\ [](pc # "stopped"))
              => []<>SubmittedWith(X)
C18_Witness ==
    /\ variant = "async"
    /\ SubmittedWith(picker)
    /\ picker # StartColormap(variant)
    /\ submitted.docHidden

\* C19: the loop stays scheduled through hidden periods.  After every tick
\* of the loop that ends at the wait for a tick, skipped or submitted, one
\* tick is requested for the loop; and when the page is shown again and again
\* and nothing fails, frames are submitted again and again.
C19_LoopStaysScheduled ==
    /\ [][ last' \in {"skip", "submit"} =>
              /\ pc' = "tick"
              /\ Count(rafQueue', LoopCallback(variant)) = 1 ]_vars
    /\ ([]<>(~hidden) /\ [](pc # "stopped")) => []<>(last = "submit")
C19_Witness ==
    /\ last = "skip"
    /\ hidden
    /\ submitted.cmds # <<>>
    /\ Count(rafQueue, LoopCallback(variant)) = 1
====
